---- MODULE Spec2Model ----
(***************************************************************************)
(* vercel-log-drain: the webhook ingestion handler (ingest), the unbounded *)
(* mpsc channel between the HTTP handlers and the controller, the          *)
(* controller's dispatch loop over the registered drivers, and the         *)
(* startup / shutdown sequence of main.                                    *)
(***************************************************************************)
EXTENDS Integers, Sequences, FiniteSets, TLC

\* ------------------------------------------------------------------ bounds
MaxDeliveries == 2      \* deliveries (request-handling contexts) in one run
MaxElems == 2           \* longest JSON array in a delivery body
NumSecrets == 2         \* distinct shared secrets a signer may hold

\* -------------------------------------------------------- program constants
SigLen == 20            \* let mut sig_bytes = [0u8; 20]
StatusOK == 200         \* StatusCode::OK

Handlers == 1..MaxDeliveries
Secrets == 1..NumSecrets
VerifyValues == {"verify-a", "verify-b"}

\* ------------------------------------------------------------ characters
HexLower == <<"0","1","2","3","4","5","6","7","8","9","a","b","c","d","e","f">>
HexUpper == <<"0","1","2","3","4","5","6","7","8","9","A","B","C","D","E","F">>
\* one ASCII character that is no hex digit, one byte outside ASCII
NonHexChar == "g"
NonAsciiChar == "\\xE9"

\* the visible-ASCII characters a header value of the model can hold
VisibleAscii == {HexLower[i] : i \in 1..16} \cup {HexUpper[i] : i \in 1..16} \cup {NonHexChar}

\* hex::val: the value of one hex digit (either case), -1 for any other byte
HexVal(c) ==
    IF \E i \in 1..16 : HexLower[i] = c
    THEN (CHOOSE i \in 1..16 : HexLower[i] = c) - 1
    ELSE IF \E i \in 1..16 : HexUpper[i] = c
         THEN (CHOOSE i \in 1..16 : HexUpper[i] = c) - 1
         ELSE -1

\* hex::decode_to_slice(data, &mut out) with out of length n
DecodeToSlice(data, n) ==
    IF Len(data) % 2 # 0 THEN [ok |-> FALSE, err |-> "OddLength", bytes |-> <<>>]
    ELSE IF Len(data) \div 2 # n
         THEN [ok |-> FALSE, err |-> "InvalidStringLength", bytes |-> <<>>]
    ELSE IF \E i \in 1..Len(data) : HexVal(data[i]) = -1
         THEN [ok |-> FALSE, err |-> "InvalidHexCharacter", bytes |-> <<>>]
    ELSE [ok |-> TRUE, err |-> "",
          bytes |-> [i \in 1..n |-> HexVal(data[2*i - 1]) * 16 + HexVal(data[2*i])]]

\* HeaderValue::to_str: Err unless every byte is visible ASCII
ToStr(value) ==
    IF \A i \in 1..Len(value) : value[i] \in VisibleAscii
    THEN [ok |-> TRUE, str |-> value]
    ELSE [ok |-> FALSE, str |-> <<>>]

\* ------------------------------------------------------------------ bodies
\* A body is its UTF-8 validity, whether its text is a JSON array, and the
\* array's elements by kind: "lambda" decodes to a Message, "unknown-kind"
\* has an unrecognized source discriminant, "malformed" has a bad shape.
ElemKinds == <<"lambda", "unknown-kind", "malformed">>

RECURSIVE SeqsUpTo(_, _)
SeqsUpTo(S, n) ==
    IF n = 0 THEN {<<>>}
    ELSE LET shorter == SeqsUpTo(S, n - 1)
         IN  shorter \cup {Append(s, x) : s \in shorter, x \in S}

BadUtf8Body == [utf8 |-> FALSE, json |-> FALSE, elems |-> <<>>]
NotJsonBody == [utf8 |-> TRUE, json |-> FALSE, elems |-> <<>>]
ArrayBody(elems) == [utf8 |-> TRUE, json |-> TRUE, elems |-> elems]

Bodies ==
    {BadUtf8Body, NotJsonBody}
      \cup {ArrayBody(e) : e \in SeqsUpTo({ElemKinds[k] : k \in 1..3}, MaxElems)}

\* String::from_utf8(body.to_vec())
FromUtf8(body) == [ok |-> body.utf8, str |-> body]

\* an injective numbering of the bodies: the bytes the MAC is computed over
RECURSIVE ElemsCode(_)
ElemsCode(elems) ==
    IF elems = <<>> THEN 0
    ELSE (CHOOSE k \in 1..3 : ElemKinds[k] = Head(elems)) + 3 * ElemsCode(Tail(elems))

BodyCode(body) ==
    (IF body.utf8 THEN 1 ELSE 0) + (IF body.json THEN 2 ELSE 0) + 4 * ElemsCode(body.elems)

\* HMAC-SHA1 as a function of (key, message): a 20-byte tag, distinct for
\* distinct (key, message) pairs of the model.
Mac(key, body) ==
    [i \in 1..SigLen |-> IF i = 1 THEN key
                         ELSE IF i = 2 THEN BodyCode(body) % 256
                         ELSE 0]

\* a verify that compares a digest of the message alone, whatever the key
HmacVerifyUnkeyed(key, data, tag) ==
    /\ Len(tag) = SigLen
    /\ \A i \in 2..SigLen : tag[i] = Mac(key, data)[i]

\* a verify that accepts every tag
HmacVerifyAny(key, data, tag) == TRUE

\* ring::hmac::verify(key, data, tag)
HmacVerify(key, data, tag) == tag = Mac(key, data)

\* the lower-case hex text of a byte string, as the signer puts it in the header
HexEncode(bytes) ==
    [i \in 1..(2 * Len(bytes)) |->
        IF i % 2 = 1 THEN HexLower[(bytes[(i + 1) \div 2] \div 16) + 1]
        ELSE HexLower[(bytes[i \div 2] % 16) + 1]]

ToUpper(str) ==
    [i \in 1..Len(str) |->
        IF \E k \in 1..16 : HexLower[k] = str[i]
        THEN HexUpper[CHOOSE k \in 1..16 : HexLower[k] = str[i]]
        ELSE str[i]]

\* ------------------------------------------------- the deliveries of a run
NoSignature == [present |-> FALSE, value |-> <<>>]
Signature(value) == [present |-> TRUE, value |-> value]

\* The x-vercel-signature header values tried with a body: absent; the hex tag
\* of that body or of any other body under any secret, in lower and upper
\* case; and text that is no 40-digit hex string (odd length, too short, too
\* long, empty, a non-hex character, a byte outside ASCII).
SignatureHeaders(body) ==
    LET tag == HexEncode(Mac(1, body))
    IN  {NoSignature}
          \cup {Signature(HexEncode(Mac(s, b))) : s \in Secrets, b \in Bodies}
          \cup {Signature(ToUpper(HexEncode(Mac(s, body)))) : s \in Secrets}
          \cup {Signature(SubSeq(tag, 1, 2 * SigLen - 1)),
                Signature(SubSeq(tag, 1, 2 * SigLen - 2)),
                Signature(tag \o <<"0", "0">>),
                Signature(<<>>),
                Signature([tag EXCEPT ![1] = NonHexChar]),
                Signature([tag EXCEPT ![1] = NonAsciiChar])}

Deliveries ==
    UNION {{[headers |-> s, body |-> b] : s \in SignatureHeaders(b)} : b \in Bodies}

\* ------------------------------------------------------------------ state
VARIABLES
    args,        \* the parsed command line: verify value, secret, enabled drivers
    mainPc,      \* main's position
    listener,    \* whether the TCP listener is bound
    ctrlState,   \* the controller: Uninitialized, Initialized, Running, Exited, Cancelled, Ended
    queue,       \* the messages in the unbounded channel
    txAlive,     \* the sender moved into AppState.log_queue is alive
    ctrlTx,      \* the sender clone given to the controller is alive
    rxAlive,     \* the receiver, owned by the controller, is alive
    cur,         \* the message the controller is dispatching, if any
    sinkIdx,     \* the next driver to be handed cur
    invoked,     \* how often each driver was handed cur
    failed,      \* the drivers whose delivery of cur returned an error
    reported,    \* the drivers whose failure for cur the controller reported
    taken,       \* per delivery, the array index of its last message the controller took
    handler,     \* the request-handling contexts
    counters     \* the metrics counters

vars == <<args, mainPc, listener, ctrlState, queue, txAlive, ctrlTx, rxAlive, cur,
          sinkIdx, invoked, failed, reported, taken, handler, counters>>

mainVars == <<mainPc, listener>>
chanVars == <<queue, txAlive, ctrlTx, rxAlive>>
dispatchVars == <<cur, sinkIdx, invoked, failed, reported, taken>>

\* -------------------------------------------------------------- the drivers
\* main pushes the CloudWatch driver, then the Loki driver, as enabled
Drivers ==
    (IF args.enable_cloudwatch THEN <<"cloudwatch">> ELSE <<>>)
      \o (IF args.enable_loki THEN <<"loki">> ELSE <<>>)

NumDrivers == Len(Drivers)

\* ------------------------------------------------------- the ingest handler
\* a response built without the verification header
BuildResponseNoVerify(state) ==
    [status |-> StatusOK, verify |-> "", body |-> <<>>]

\* Response::builder().status(OK).header("x-vercel-verify", ..).body(empty)
BuildResponse(state) ==
    [status |-> StatusOK, verify |-> state.vercel_verify, body |-> <<>>]

NoResponse == [status |-> 0, verify |-> "", body |-> <<>>]

\* the payload decoder: the messages of the well-formed elements, in array
\* order, each tagged with its delivery and array position
RECURSIVE MessagesFrom(_, _, _)
MessagesFrom(elems, d, i) ==
    IF i > Len(elems) THEN <<>>
    ELSE (IF elems[i] = "lambda" THEN <<[delivery |-> d, index |-> i]>> ELSE <<>>)
           \o MessagesFrom(elems, d, i + 1)

\* serde_json::from_str::<types::VercelPayload>: Err when the text is no JSON
\* array; otherwise the decoded messages and the number of elements skipped
FromStr(body_string, d) ==
    IF ~body_string.json
    THEN [ok |-> FALSE, messages |-> <<>>, failures |-> 0]
    ELSE [ok |-> TRUE,
          messages |-> MessagesFrom(body_string.elems, d, 1),
          failures |-> Cardinality({i \in 1..Len(body_string.elems) :
                                       body_string.elems[i] # "lambda"})]

\* what one run of the handler's checks leaves behind
Outcome(pc, path, counter, response, messages, failures, steps) ==
    [pc |-> pc, path |-> path, counter |-> counter, response |-> response,
     messages |-> messages, failures |-> failures, steps |-> steps]

\* a parse failure answered with a server error
AfterVerifyErrorStatus(response, body_string, d, steps) ==
    LET parsed == FromStr(body_string, d)
    IN  IF parsed.ok
        THEN Outcome("sending", "parsed", "none", response, parsed.messages,
                     parsed.failures, steps \cup {"parse"})
        ELSE Outcome("returned", "parse_failed", "none",
                     [response EXCEPT !.status = 500], <<>>, 0, steps \cup {"parse"})

\* a parse whose error is unwrapped
AfterVerifyUnwrap(response, body_string, d, steps) ==
    LET parsed == FromStr(body_string, d)
    IN  IF parsed.ok
        THEN Outcome("sending", "parsed", "none", response, parsed.messages,
                     parsed.failures, steps \cup {"parse"})
        ELSE Outcome("panicked", "parse_unwrap", "none", response, <<>>, 0,
                     steps \cup {"parse"})

\* the parse of an authenticated body and the choice of what to enqueue
AfterVerify(response, body_string, d, steps) ==
    LET parsed == FromStr(body_string, d)
    IN  IF parsed.ok
        THEN Outcome("sending", "parsed", "none", response, parsed.messages,
                     parsed.failures, steps \cup {"parse"})
        ELSE Outcome("returned", "parse_failed", "none", response, <<>>, 0,
                     steps \cup {"parse"})

\* a handler that looks at the body before it looks for the signature header
IngestChecksBodyFirst(state, headers, body, d) ==
    LET response == BuildResponse(state)
        body_string == FromUtf8(body)
    IN  IF ~body_string.ok
        THEN Outcome("returned", "bad_utf8", "drain_recv_bad_utf8", response, <<>>, 0,
                     {"utf8"})
        ELSE IF ~headers.present
        THEN Outcome("returned", "missing_signature", "drain_recv_invalid_signature",
                     response, <<>>, 0, {"utf8"})
        ELSE
        LET signature == ToStr(headers.value)
        IN  IF ~signature.ok
            THEN Outcome("panicked", "to_str_unwrap", "none", response, <<>>, 0,
                         {"utf8", "to_str"})
            ELSE
            LET sig_bytes == DecodeToSlice(signature.str, SigLen)
            IN  IF ~sig_bytes.ok
                THEN Outcome("panicked", "hex_decode_unwrap", "none", response,
                             <<>>, 0, {"to_str", "utf8", "hex"})
                ELSE IF ~HmacVerify(state.vercel_secret, body_string.str, sig_bytes.bytes)
                THEN Outcome("returned", "mac_mismatch", "drain_failed_verify_signature",
                             response, <<>>, 0, {"to_str", "utf8", "hex", "mac"})
                ELSE AfterVerify(response, body_string.str, d,
                                 {"to_str", "utf8", "hex", "mac"})

\* the handler from its first line to the end of signature verification
IngestChecks(state, headers, body, d) ==
    LET response == BuildResponse(state)
    IN  IF ~headers.present
        THEN Outcome("returned", "missing_signature", "drain_recv_invalid_signature",
                     response, <<>>, 0, {})
        ELSE
        LET signature == ToStr(headers.value)
        IN  IF ~signature.ok
            THEN Outcome("panicked", "to_str_unwrap", "none", response, <<>>, 0, {"to_str"})
            ELSE
            LET body_string == FromUtf8(body)
            IN  IF ~body_string.ok
                THEN Outcome("returned", "bad_utf8", "drain_recv_bad_utf8", response,
                             <<>>, 0, {"to_str", "utf8"})
                ELSE
                LET sig_bytes == DecodeToSlice(signature.str, SigLen)
                IN  IF ~sig_bytes.ok
                    THEN Outcome("panicked", "hex_decode_unwrap", "none", response,
                                 <<>>, 0, {"to_str", "utf8", "hex"})
                    ELSE IF ~HmacVerify(state.vercel_secret, body_string.str, sig_bytes.bytes)
                    THEN Outcome("returned", "mac_mismatch", "drain_failed_verify_signature",
                                 response, <<>>, 0, {"to_str", "utf8", "hex", "mac"})
                    ELSE AfterVerify(response, body_string.str, d,
                                     {"to_str", "utf8", "hex", "mac"})

IdleHandler ==
    [pc |-> "idle", headers |-> NoSignature, body |-> BadUtf8Body, path |-> "none",
     pending |-> <<>>, sent |-> <<>>, dropped |-> 0, response |-> NoResponse,
     failures |-> 0, steps |-> {}]

CounterNames ==
    {"drain_recv_invalid_signature", "drain_recv_bad_utf8", "drain_failed_verify_signature"}

\* a request reaches ingest: everything up to the first send, or to the return
Ingest(h, deliveries) ==
    /\ mainPc = "serving"
    /\ handler[h].pc = "idle"
    /\ \E delivery \in deliveries :
          LET out == IngestChecks(args, delivery.headers, delivery.body, h)
          IN  /\ handler' = [handler EXCEPT ![h] =
                     [pc |-> out.pc, headers |-> delivery.headers, body |-> delivery.body,
                      path |-> out.path, pending |-> out.messages, sent |-> <<>>,
                      dropped |-> 0, response |-> out.response, failures |-> out.failures,
                      steps |-> out.steps]]
              /\ counters' = [c \in CounterNames |->
                                 counters[c] + (IF c = out.counter THEN 1 ELSE 0)]
    /\ UNCHANGED <<args, mainVars, ctrlState, chanVars, dispatchVars>>

\* a send that puts the message at the front of the channel
EnqueueFront(q, message) == <<message>> \o q

\* a send that reports success and loses the message
EnqueueLost(q, message) == q

\* UnboundedSender::send on an open channel: the message goes to the back
Enqueue(q, message) == Append(q, message)

\* a send whose error is unwrapped: the handler dies on a closed channel
IngestSendUnwrap(h) ==
    /\ handler[h].pc = "sending"
    /\ handler[h].pending # <<>>
    /\ LET message == Head(handler[h].pending)
       IN  IF rxAlive
           THEN /\ queue' = Append(queue, message)
                /\ handler' = [handler EXCEPT ![h].pending = Tail(@),
                                               ![h].sent = Append(@, message)]
           ELSE /\ queue' = queue
                /\ handler' = [handler EXCEPT ![h].pc = "panicked"]
    /\ UNCHANGED <<args, mainVars, ctrlState, txAlive, ctrlTx, rxAlive, dispatchVars,
                   counters>>

\* a loop that stops after its first send
IngestSendOnce(h) ==
    /\ handler[h].pc = "sending"
    /\ handler[h].pending # <<>>
    /\ queue' = Append(queue, Head(handler[h].pending))
    /\ handler' = [handler EXCEPT ![h].pending = <<>>,
                                   ![h].sent = Append(@, Head(handler[h].pending))]
    /\ UNCHANGED <<args, mainVars, ctrlState, txAlive, ctrlTx, rxAlive, dispatchVars,
                   counters>>

\* one turn of `for message in payload.0`: send never waits; it fails only
\* when the receiver is gone, and the failure is logged and the loop goes on
IngestSend(h) ==
    /\ handler[h].pc = "sending"
    /\ handler[h].pending # <<>>
    /\ LET message == Head(handler[h].pending)
       IN  IF rxAlive
           THEN /\ queue' = Enqueue(queue, message)
                /\ handler' = [handler EXCEPT ![h].pending = Tail(@),
                                               ![h].sent = Append(@, message)]
           ELSE /\ queue' = queue
                /\ handler' = [handler EXCEPT ![h].pending = Tail(@),
                                               ![h].dropped = @ + 1]
    /\ UNCHANGED <<args, mainVars, ctrlState, txAlive, ctrlTx, rxAlive, dispatchVars,
                   counters>>

\* `return response` after the loop
IngestReturn(h) ==
    /\ handler[h].pc = "sending"
    /\ handler[h].pending = <<>>
    /\ handler' = [handler EXCEPT ![h].pc = "returned"]
    /\ UNCHANGED <<args, mainVars, ctrlState, chanVars, dispatchVars, counters>>

\* ------------------------------------------------------------ the controller
NoMessage == [some |-> FALSE, delivery |-> 0, index |-> 0]
Some(message) == [some |-> TRUE, delivery |-> message.delivery, index |-> message.index]
DriverSlots == 1..2
NoneInvoked == [i \in DriverSlots |-> 0]

\* rx.recv() in run(): the next message; None once the channel is empty and
\* every sender is gone, which ends the loop
CtrlRecv ==
    /\ ctrlState = "Running"
    /\ ~cur.some
    /\ queue # <<>> \/ (~txAlive /\ ~ctrlTx)
    /\ IF queue # <<>>
       THEN /\ cur' = Some(Head(queue))
            /\ queue' = Tail(queue)
            /\ taken' = [taken EXCEPT ![Head(queue).delivery] = Head(queue).index]
            /\ sinkIdx' = 1
            /\ invoked' = NoneInvoked
            /\ failed' = {}
            /\ reported' = {}
            /\ UNCHANGED <<ctrlState, rxAlive>>
       ELSE /\ ctrlState' = "Exited"
            /\ rxAlive' = FALSE
            /\ UNCHANGED <<queue, dispatchVars>>
    /\ UNCHANGED <<args, mainVars, txAlive, ctrlTx, handler, counters>>

\* a pass that gives up on the first driver error
CtrlDeliverBail ==
    /\ ctrlState = "Running"
    /\ cur.some
    /\ sinkIdx <= NumDrivers
    /\ \E ok \in BOOLEAN :
          /\ invoked' = [invoked EXCEPT ![sinkIdx] = @ + 1]
          /\ failed' = IF ok THEN failed ELSE failed \cup {sinkIdx}
          /\ reported' = IF ok THEN reported ELSE reported \cup {sinkIdx}
          /\ sinkIdx' = IF ok THEN sinkIdx + 1 ELSE NumDrivers + 1
    /\ UNCHANGED <<args, mainVars, ctrlState, chanVars, cur, taken, handler, counters>>

\* the next driver is handed cur; its error, if any, is reported and the
\* pass goes on to the driver after it
CtrlDeliver ==
    /\ ctrlState = "Running"
    /\ cur.some
    /\ sinkIdx <= NumDrivers
    /\ \E ok \in BOOLEAN :
          /\ invoked' = [invoked EXCEPT ![sinkIdx] = @ + 1]
          /\ failed' = IF ok THEN failed ELSE failed \cup {sinkIdx}
          /\ reported' = IF ok THEN reported ELSE reported \cup {sinkIdx}
    /\ sinkIdx' = sinkIdx + 1
    /\ UNCHANGED <<args, mainVars, ctrlState, chanVars, cur, taken, handler, counters>>

\* every driver has been handed cur: back to recv
CtrlLoop ==
    /\ ctrlState = "Running"
    /\ cur.some
    /\ sinkIdx > NumDrivers
    /\ cur' = NoMessage
    /\ sinkIdx' = 1
    /\ invoked' = NoneInvoked
    /\ failed' = {}
    /\ reported' = {}
    /\ UNCHANGED <<args, mainVars, ctrlState, chanVars, taken, handler, counters>>

\* ------------------------------------------------------------------- main
\* an init whose error is dropped: main goes on to spawn the controller
MainInitUnchecked ==
    /\ mainPc = "init"
    /\ \E ok \in BOOLEAN :
          /\ ctrlState' = IF ok THEN "Initialized" ELSE ctrlState
          /\ mainPc' = "spawn"
    /\ UNCHANGED <<args, listener, chanVars, dispatchVars, handler, counters>>

\* controller.init().await?  -- an Err ends main before anything is spawned
MainInit ==
    /\ mainPc = "init"
    /\ \E ok \in BOOLEAN :
          IF ok
          THEN /\ ctrlState' = "Initialized"
               /\ mainPc' = "spawn"
               /\ UNCHANGED <<txAlive, ctrlTx, rxAlive>>
          ELSE /\ mainPc' = "init_failed"
               /\ txAlive' = FALSE
               /\ ctrlTx' = FALSE
               /\ rxAlive' = FALSE
               /\ UNCHANGED ctrlState
    /\ UNCHANGED <<args, listener, queue, dispatchVars, handler, counters>>

\* tokio::spawn(async move { controller.run().await })
MainSpawn ==
    /\ mainPc = "spawn"
    /\ ctrlState' = "Running"
    /\ mainPc' = "bind"
    /\ UNCHANGED <<args, listener, chanVars, dispatchVars, handler, counters>>

\* TcpListener::bind(..).await?  then axum::serve
MainBind ==
    /\ mainPc = "bind"
    /\ \E ok \in BOOLEAN :
          IF ok
          THEN /\ listener' = TRUE
               /\ mainPc' = "serving"
               /\ UNCHANGED txAlive
          ELSE /\ listener' = FALSE
               /\ mainPc' = "bind_failed"
               /\ txAlive' = FALSE
    /\ UNCHANGED <<args, ctrlState, queue, ctrlTx, rxAlive, dispatchVars, handler, counters>>

\* shutdown_for_signals() resolves: the server stops accepting requests
MainSignal ==
    /\ mainPc = "serving"
    /\ mainPc' = "draining"
    /\ UNCHANGED <<args, listener, ctrlState, chanVars, dispatchVars, handler, counters>>

\* the requests in flight are over: serve returns, the router and its
\* AppState (with log_queue) are dropped, main returns Ok(())
MainReturn ==
    /\ mainPc = "draining"
    /\ \A h \in Handlers : handler[h].pc # "sending"
    /\ mainPc' = "exited"
    /\ listener' = FALSE
    /\ txAlive' = FALSE
    /\ UNCHANGED <<args, ctrlState, queue, ctrlTx, rxAlive, dispatchVars, handler, counters>>

\* main has returned: the runtime is dropped and the spawned task, with the
\* controller it owns, is dropped at its next await
RuntimeShutdown ==
    /\ mainPc \in {"exited", "bind_failed"}
    /\ ctrlState = "Running"
    /\ ctrlState' = "Cancelled"
    /\ ctrlTx' = FALSE
    /\ rxAlive' = FALSE
    /\ UNCHANGED <<args, mainVars, queue, txAlive, dispatchVars, handler, counters>>

\* ---------------------------------------------------------- specifications
ArgsSet ==
    [vercel_verify : VerifyValues, vercel_secret : Secrets,
     enable_cloudwatch : BOOLEAN, enable_loki : BOOLEAN]

\* main up to Controller::new: the channel and the controller exist
InitWith(argset) ==
    /\ args \in argset
    /\ mainPc = "init"
    /\ listener = FALSE
    /\ ctrlState = "Uninitialized"
    /\ queue = <<>>
    /\ txAlive = TRUE
    /\ ctrlTx = TRUE
    /\ rxAlive = TRUE
    /\ cur = NoMessage
    /\ sinkIdx = 1
    /\ invoked = NoneInvoked
    /\ failed = {}
    /\ reported = {}
    /\ taken = [h \in Handlers |-> 0]
    /\ handler = [h \in Handlers |-> IdleHandler]
    /\ counters = [c \in CounterNames |-> 0]

\* the deliveries of the whole-pipeline runs: one batch of two messages,
\* signed with the configured secret, signed with another secret, and with a
\* signature that is no hex string; and a correctly signed body that is no
\* JSON array
PipelineBody == ArrayBody(<<"lambda", "lambda">>)

PipelineDeliveries ==
    {[headers |-> Signature(HexEncode(Mac(1, PipelineBody))), body |-> PipelineBody],
     [headers |-> Signature(HexEncode(Mac(2, PipelineBody))), body |-> PipelineBody],
     [headers |-> Signature([HexEncode(Mac(1, PipelineBody)) EXCEPT ![1] = NonHexChar]),
      body |-> PipelineBody],
     [headers |-> Signature(HexEncode(Mac(1, NotJsonBody))), body |-> NotJsonBody]}

Init ==
    InitWith({a \in ArgsSet : a.vercel_secret = 1 /\ a.vercel_verify = "verify-a"})

Startup == MainInit \/ MainSpawn \/ MainBind
Shutdown == MainSignal \/ MainReturn \/ RuntimeShutdown
Controller == CtrlRecv \/ CtrlDeliver \/ CtrlLoop
Requests(hs, deliveries) ==
    \E h \in hs :
        \/ Ingest(h, deliveries)
        \/ IngestSend(h)
        \/ IngestReturn(h)

Next == Startup \/ Shutdown \/ Controller \/ Requests(Handlers, PipelineDeliveries)

Spec == Init /\ [][Next]_vars

\* both drivers registered, and the controller task scheduled fairly;
\* requests and signals are not
InitBothDrivers ==
    InitWith({a \in ArgsSet : /\ a.vercel_secret = 1
                               /\ a.vercel_verify = "verify-a"
                               /\ a.enable_cloudwatch
                               /\ a.enable_loki})

FairSpec ==
    /\ InitBothDrivers
    /\ [][Next]_vars
    /\ WF_vars(CtrlRecv)
    /\ WF_vars(CtrlDeliver)
    /\ WF_vars(CtrlLoop)

\* one request through the handler, over every delivery of the model, while
\* the controller is not scheduled
InitIngest == InitWith({a \in ArgsSet : ~a.enable_cloudwatch /\ ~a.enable_loki})

NextIngest == Startup \/ Requests({1}, Deliveries)

SpecIngest == InitIngest /\ [][NextIngest]_vars

\* ---- the service when the controller task can end while requests are served
\* the task spawned for controller.run() ends (its JoinHandle is dropped, so
\* nothing waits for it): the future is dropped and with it the Receiver and
\* the controller's sender clone; messages still queued are dropped with it
CtrlTaskEnds ==
    /\ ctrlState = "Running"
    /\ mainPc = "serving"
    /\ ctrlState' = "Ended"
    /\ rxAlive' = FALSE
    /\ ctrlTx' = FALSE
    /\ queue' = <<>>
    /\ UNCHANGED <<args, mainVars, txAlive, dispatchVars, handler, counters>>

\* one driver registered; every delivery is the correctly signed batch
InitOneDriver ==
    InitWith({a \in ArgsSet : /\ a.vercel_secret = 1
                               /\ a.vercel_verify = "verify-a"
                               /\ a.enable_cloudwatch
                               /\ ~a.enable_loki})

SignedDeliveries ==
    {[headers |-> Signature(HexEncode(Mac(1, PipelineBody))), body |-> PipelineBody]}

NextConsumerGone ==
    Startup \/ Shutdown \/ Controller \/ Requests(Handlers, SignedDeliveries) \/ CtrlTaskEnds

SpecConsumerGone == InitOneDriver /\ [][NextConsumerGone]_vars

\* ----------------------------------------------------------- properties
Started(h) == handler[h].pc # "idle"

\* the header text is a 40-digit hex string
WellFormedSignature(value) ==
    /\ Len(value) = 2 * SigLen
    /\ \A i \in 1..Len(value) : HexVal(value[i]) >= 0

\* the delivery carries the MAC of its own body under the configured secret
Authentic(h) ==
    /\ handler[h].headers.present
    /\ WellFormedSignature(handler[h].headers.value)
    /\ \A i \in 1..SigLen :
          HexVal(handler[h].headers.value[2*i - 1]) * 16
            + HexVal(handler[h].headers.value[2*i]) = Mac(args.vercel_secret, handler[h].body)[i]

\* the messages of delivery h in a sequence of messages, in that order
RECURSIVE OfDelivery(_, _)
OfDelivery(msgs, h) ==
    IF msgs = <<>> THEN <<>>
    ELSE (IF Head(msgs).delivery = h THEN <<Head(msgs)>> ELSE <<>>)
           \o OfDelivery(Tail(msgs), h)

ValidIndices(elems) == {i \in 1..Len(elems) : elems[i] = "lambda"}

Ascending(msgs) ==
    \A i, j \in 1..Len(msgs) : i < j => msgs[i].index < msgs[j].index

\* C1: a delivery whose verification fails (no signature header, a signature
\* that does not decode, a MAC that is not the MAC of the body under the
\* configured secret) never has a message of its own queued, sent or pending;
\* every queued message belongs to a delivery whose body passed hmac::verify.
C1_UnverifiedNeverQueued ==
    /\ \A h \in Handlers :
          (Started(h) /\ ~Authentic(h)) =>
              /\ handler[h].pending = <<>>
              /\ handler[h].sent = <<>>
              /\ OfDelivery(queue, h) = <<>>
    /\ \A i \in 1..Len(queue) :
          /\ Authentic(queue[i].delivery)
          /\ "mac" \in handler[queue[i].delivery].steps

\* a forged delivery (well-formed signature of the wrong secret or body) whose
\* body would decode to messages has been answered, and the queue is empty
C1_Witness ==
    \E h \in Handlers :
        /\ handler[h].pc = "returned"
        /\ handler[h].path = "mac_mismatch"
        /\ ValidIndices(handler[h].body.elems) # {}
        /\ queue = <<>>

\* C2: a signature header that is no 40-digit hex string is answered like any
\* rejected delivery: the handler never panics on it.
C2_MalformedSignatureRejected ==
    \A h \in Handlers :
        (/\ Started(h)
         /\ handler[h].headers.present
         /\ ~WellFormedSignature(handler[h].headers.value))
            => handler[h].pc = "returned"

\* C3: an authenticated JSON array with N well-formed and M other elements
\* ends with exactly the N messages queued, in array order, and M decode
\* failures reported.
C3_PartialDecode ==
    \A h \in Handlers :
        (/\ handler[h].pc = "returned"
         /\ Authentic(h)
         /\ handler[h].body.utf8
         /\ handler[h].body.json)
            => LET elems == handler[h].body.elems
                   got == OfDelivery(queue, h)
               IN  /\ Len(got) = Cardinality(ValidIndices(elems))
                   /\ {got[i].index : i \in 1..Len(got)} = ValidIndices(elems)
                   /\ Ascending(got)
                   /\ handler[h].failures = Len(elems) - Cardinality(ValidIndices(elems))

\* a batch with a bad element before a good one is done: one message queued
C3_Witness ==
    \E h \in Handlers :
        /\ handler[h].pc = "returned"
        /\ Authentic(h)
        /\ handler[h].body.elems = <<"unknown-kind", "lambda">>
        /\ queue = <<[delivery |-> h, index |-> 2]>>
        /\ handler[h].failures = 1

\* C4: once a delivery has passed verification the handler is never stuck and
\* never panics, and the response it returns has status 200, whether the body
\* parses or not and whatever the controller and the drivers do.
C4_AuthenticatedAlwaysAcked ==
    \A h \in Handlers :
        (Started(h) /\ Authentic(h) /\ handler[h].body.utf8) =>
            /\ handler[h].pc \in {"sending", "returned"}
            /\ handler[h].response.status = StatusOK
            /\ handler[h].pc = "sending" => ENABLED (IngestSend(h) \/ IngestReturn(h))

\* an authenticated body that is no JSON array has been answered while a
\* driver has failed on a message of another delivery
C4_Witness ==
    \E h \in Handlers :
        /\ handler[h].pc = "returned"
        /\ Authentic(h)
        /\ ~handler[h].body.json
        /\ handler[h].response.status = StatusOK
        /\ failed # {}

\* C5: the messages of one delivery are never reordered: what a handler has
\* still to send comes after what it has sent, the queue holds each delivery's
\* messages in array order, and whatever of a delivery the controller has not
\* taken yet comes after the last message of that delivery it took.
C5_OrderWithinDelivery ==
    \A h \in Handlers :
        /\ Ascending(handler[h].sent \o handler[h].pending)
        /\ Ascending(OfDelivery(queue, h))
        /\ \A i \in 1..Len(queue) :
              queue[i].delivery = h => queue[i].index > taken[h]
        /\ \A i \in 1..Len(handler[h].pending) : handler[h].pending[i].index > taken[h]
        /\ (cur.some /\ cur.delivery = h) => cur.index = taken[h]

\* two deliveries interleaved: the controller is on the second message of
\* delivery 1, having taken the first message of delivery 2 in between
C5_Witness ==
    /\ cur.some
    /\ cur.delivery = 1
    /\ cur.index = 2
    /\ taken[2] = 1
    /\ queue = <<[delivery |-> 2, index |-> 2]>>

\* C6: in a dispatch pass every driver before the current position has been
\* handed the message exactly once and none after it, whichever of them
\* failed, and the failures reported are exactly the failures that occurred;
\* so a finished pass has invoked each of the K drivers once.
C6_EverySinkOnce ==
    cur.some =>
        /\ sinkIdx \in 1..(NumDrivers + 1)
        /\ \A i \in DriverSlots :
              invoked[i] = (IF i < sinkIdx /\ i <= NumDrivers THEN 1 ELSE 0)
        /\ reported = failed
        /\ failed \subseteq 1..(sinkIdx - 1)

\* a pass over two drivers is finished; the first failed, the second was invoked
C6_Witness ==
    /\ cur.some
    /\ NumDrivers = 2
    /\ sinkIdx = 3
    /\ failed = {1}
    /\ invoked[2] = 1

PipelineMessages ==
    {[delivery |-> h, index |-> i] : h \in Handlers, i \in 1..Len(PipelineBody.elems)}

Enqueued(m) == \E h \in Handlers : \E i \in 1..Len(handler[h].sent) : handler[h].sent[i] = m

\* m was sent with success and the controller has not taken it yet
Waiting(m) == Enqueued(m) /\ taken[m.delivery] < m.index

\* the controller holds m and has handed it to every registered driver
HandedToAll(m) ==
    /\ cur = Some(m)
    /\ sinkIdx = NumDrivers + 1
    /\ \A i \in 1..NumDrivers : invoked[i] = 1

ProcessShutDown == mainPc = "exited"

\* C7: with the controller task scheduled fairly, every message a handler has
\* enqueued and the controller has not taken yet is eventually held by the
\* controller with every registered driver invoked on it, unless the process
\* is shut down first.
C7_EnqueuedEventuallyDispatched ==
    \A m \in PipelineMessages : Waiting(m) ~> (HandedToAll(m) \/ ProcessShutDown)

\* a message has been handed to both drivers while the server is up
C7_Witness ==
    \E m \in PipelineMessages :
        /\ Enqueued(m)
        /\ HandedToAll(m)
        /\ NumDrivers = 2
        /\ mainPc = "serving"

\* C8: a handler that has started has returned its acknowledgment, or is in
\* its send loop and can take its next step whatever the controller does and
\* however long the queue is.
C8_StartedHandlerAcks ==
    \A h \in Handlers :
        \/ handler[h].pc \in {"idle", "returned"}
        \/ /\ handler[h].pc = "sending"
           /\ ENABLED (IngestSend(h) \/ IngestReturn(h))

\* C9: the controller goes Uninitialized -> Initialized -> Running and in no
\* other order; it runs only after init succeeded; and when init fails
\* nothing is spawned, the listener is never bound and no delivery is handled.
C9_InitBeforeRun ==
    /\ [][ctrlState' # ctrlState =>
             <<ctrlState, ctrlState'>> \in {<<"Uninitialized", "Initialized">>,
                                            <<"Initialized", "Running">>,
                                            <<"Running", "Exited">>,
                                            <<"Running", "Cancelled">>}]_vars
    /\ [](ctrlState = "Running" => mainPc \notin {"init", "spawn", "init_failed"})
    /\ [](mainPc = "init_failed" =>
             /\ ctrlState = "Uninitialized"
             /\ ~listener
             /\ queue = <<>>
             /\ \A h \in Handlers : handler[h].pc = "idle")
    /\ [][mainPc = "init_failed" => mainPc' = "init_failed"]_vars

\* init has failed and main is over with the controller never run
C9_Witness ==
    /\ mainPc = "init_failed"
    /\ ctrlState = "Uninitialized"
    /\ ~listener

CountedOnce(cs) ==
    \A c \in CounterNames : counters[c] = (IF c \in cs THEN 1 ELSE 0)

\* C11: a delivery that fails verification increments exactly one rejection
\* counter, the one of its own reason (missing signature, badly encoded
\* signature, MAC mismatch), and a delivery that passes increments none.  With
\* one handler and one delivery, the counters are that delivery's increments.
C11_OneRejectionCounter ==
    Started(1) =>
        /\ Authentic(1) /\ handler[1].body.utf8 => CountedOnce({})
        /\ ~handler[1].headers.present => CountedOnce({"drain_recv_invalid_signature"})
        /\ (/\ handler[1].headers.present
            /\ ~WellFormedSignature(handler[1].headers.value))
              => \E c \in CounterNames : CountedOnce({c})
        /\ (/\ handler[1].headers.present
            /\ WellFormedSignature(handler[1].headers.value)
            /\ handler[1].body.utf8
            /\ ~Authentic(1))
              => CountedOnce({"drain_failed_verify_signature"})

\* C13: a delivery without a signature header is turned down at once: the
\* handler has returned without having looked at the header text, checked the
\* body's UTF-8, decoded a signature or computed a MAC, and no message of the
\* delivery is pending, sent or queued.
C13_MissingSignatureFirst ==
    \A h \in Handlers :
        (Started(h) /\ ~handler[h].headers.present) =>
            /\ handler[h].pc = "returned"
            /\ handler[h].path = "missing_signature"
            /\ handler[h].steps = {}
            /\ handler[h].pending = <<>>
            /\ handler[h].sent = <<>>
            /\ OfDelivery(queue, h) = <<>>

\* a delivery without a signature header whose body is no UTF-8 has been
\* answered as a missing signature, its body unchecked
C13_Witness ==
    \E h \in Handlers :
        /\ handler[h].pc = "returned"
        /\ ~handler[h].headers.present
        /\ ~handler[h].body.utf8
        /\ handler[h].steps = {}
        /\ counters["drain_recv_invalid_signature"] = 1
        /\ counters["drain_recv_bad_utf8"] = 0

\* C14: an authenticated delivery whose body is no JSON array has been
\* answered with the 200 response by the arm that reports the one whole-payload
\* decode failure, with no per-element report and no message
\* pending, sent or queued; and every idle request context still accepts a
\* delivery while the server serves.
\* an authenticated delivery whose body is text but no JSON array
BadPayload(h) ==
    Started(h) /\ handler[h].body.utf8 /\ ~handler[h].body.json /\ Authentic(h)

C14_BadPayloadSkipped ==
    /\ \A h \in Handlers :
          BadPayload(h) =>
              /\ handler[h].pc = "returned"
              /\ handler[h].path = "parse_failed"
              /\ handler[h].failures = 0
              /\ handler[h].response = BuildResponse(args)
              /\ handler[h].pending = <<>>
              /\ handler[h].sent = <<>>
              /\ OfDelivery(queue, h) = <<>>
    /\ ((\E h \in Handlers : BadPayload(h)) /\ mainPc = "serving") =>
          \A g \in Handlers : handler[g].pc = "idle" => ENABLED Ingest(g, PipelineDeliveries)

\* next to a delivery answered as a whole-payload decode failure, another
\* delivery has had both its messages queued and has been answered
C14_Witness ==
    \E h, g \in Handlers :
        /\ handler[h].pc = "returned"
        /\ handler[h].path = "parse_failed"
        /\ handler[g].pc = "returned"
        /\ handler[g].path = "parsed"
        /\ Len(handler[g].sent) = 2

\* the delivery's header is the hex tag of its own body under secret s
SignedBy(h, s) ==
    handler[h].headers = Signature(HexEncode(Mac(s, handler[h].body)))

C16_BadUtf8BeforeSignature ==
    (Started(1) /\ handler[1].headers.present /\ ~handler[1].body.utf8) =>
        /\ handler[1].pc = "returned"
        /\ handler[1].path = "bad_utf8"
        /\ handler[1].response = BuildResponse(args)
        /\ "hex" \notin handler[1].steps
        /\ "mac" \notin handler[1].steps
        /\ CountedOnce({"drain_recv_bad_utf8"})
        /\ handler[1].pending = <<>>
        /\ handler[1].sent = <<>>
        /\ queue = <<>>

\* the acknowledgment of the configured service
Acknowledgment == [status |-> 200, verify |-> args.vercel_verify, body |-> <<>>]

\* C17: the response a handler holds from its first step on, and returns on
\* every return path, has status 200, an empty body and the configured value in
\* x-vercel-verify; no later step of the handler alters it.
C17_ResponseFixed ==
    /\ [](\A h \in Handlers : Started(h) => handler[h].response = Acknowledgment)
    /\ [](\A h \in Handlers :
            handler[h].pc = "returned" =>
                /\ handler[h].path \in {"missing_signature", "bad_utf8", "mac_mismatch",
                                        "parse_failed", "parsed"}
                /\ handler[h].response = Acknowledgment)
    /\ [][\A h \in Handlers :
            Started(h) => handler'[h].response = handler[h].response]_vars

\* a handler of the service configured with "verify-b" has sent its batch and
\* returned the acknowledgment carrying "verify-b"
C17_Witness ==
    \E h \in Handlers :
        /\ args.vercel_verify = "verify-b"
        /\ handler[h].pc = "returned"
        /\ handler[h].path = "parsed"
        /\ handler[h].sent # <<>>
        /\ handler[h].response.verify = "verify-b"
        /\ handler[h].response.status = 200

\* C12: once the receiver is gone, a handler with a parsed batch neither dies
\* nor stalls: every message of the batch is either sent (before the receiver
\* went) or logged as dropped or still to be tried, the loop can always take
\* its next turn, and the response it holds and returns is the 200 response.
C12_ClosedQueueNotFatal ==
    \A h \in Handlers :
        (handler[h].path = "parsed" /\ ~rxAlive) =>
            /\ handler[h].pc \in {"sending", "returned"}
            /\ handler[h].response = BuildResponse(args)
            /\ Len(handler[h].sent) + handler[h].dropped + Len(handler[h].pending)
                 = Cardinality(ValidIndices(handler[h].body.elems))
            /\ handler[h].pc = "sending" => ENABLED (IngestSend(h) \/ IngestReturn(h))
            /\ handler[h].pc = "returned" => handler[h].pending = <<>>

\* a handler whose two sends both failed on the closed channel has gone on
\* after the first failure and returned the 200 response
C12_Witness ==
    \E h \in Handlers :
        /\ ~rxAlive
        /\ handler[h].pc = "returned"
        /\ handler[h].dropped = 2
        /\ handler[h].sent = <<>>
        /\ handler[h].response.status = StatusOK
====
